---- MODULE Spec2Model ----
(***************************************************************************)
(* LambdUpdate: model of src/src/lib.rs.  Strings are sequences of         *)
(* one-character strings so that split, trim and strip_suffix are          *)
(* computed character by character, as the code computes them.             *)
(***************************************************************************)
EXTENDS Integers, Sequences, FiniteSets, Bags, TLC

(* ---------------------------------------------------------------- bounds *)
MaxRecords == 2   \* records per event
MaxTasks == 3     \* update tasks per run; answers that exceed it are not explored
MaxLen == 4       \* characters per string handed to a function on its own

(* ------------------------------------------------- Option<T>, Result<T> *)
None == [some |-> FALSE]
Some(v) == [some |-> TRUE, val |-> v]
Ok(v) == [ok |-> TRUE, val |-> v]
Err(m, a) == [ok |-> FALSE, msg |-> m, arg |-> a]
Unit == "()"

(* --------------------------------------------------------------- strings *)
ZIP == <<".", "z", "i", "p">>
FUNCTION_NAME_MD_KEY == "function.names"
IsWhitespace(c) == c = " "

RECURSIVE TrimStart(_)
TrimStart(s) ==
    IF s # <<>> /\ IsWhitespace(Head(s)) THEN TrimStart(Tail(s)) ELSE s

RECURSIVE TrimEnd(_)
TrimEnd(s) ==
    IF s # <<>> /\ IsWhitespace(s[Len(s)])
    THEN TrimEnd(SubSeq(s, 1, Len(s) - 1)) ELSE s

Trim(s) == TrimEnd(TrimStart(s))

RECURSIVE Split(_, _)
Split(s, sep) ==
    IF \A k \in 1..Len(s) : s[k] # sep
    THEN <<s>>
    ELSE LET k == CHOOSE k \in 1..Len(s) :
                     s[k] = sep /\ \A j \in 1..(k - 1) : s[j] # sep
         IN <<SubSeq(s, 1, k - 1)>> \o Split(SubSeq(s, k + 1, Len(s)), sep)

StripSuffix(s, suffix) ==
    IF Len(s) >= Len(suffix)
       /\ SubSeq(s, Len(s) - Len(suffix) + 1, Len(s)) = suffix
    THEN Some(SubSeq(s, 1, Len(s) - Len(suffix)))
    ELSE None

RECURSIVE MapTrim(_)
MapTrim(ps) ==
    IF ps = <<>> THEN <<>> ELSE <<Trim(Head(ps))>> \o MapTrim(Tail(ps))

RECURSIVE FilterNonEmpty(_)
FilterNonEmpty(ps) ==
    IF ps = <<>> THEN <<>>
    ELSE IF Head(ps) # <<>> THEN <<Head(ps)>> \o FilterNonEmpty(Tail(ps))
         ELSE FilterNonEmpty(Tail(ps))

(* ------------------------------------------------------ lib.rs functions *)
get_region_any(recs) ==
    LET regions == {recs[k].aws_region.val :
                       k \in {j \in 1..Len(recs) : recs[j].aws_region.some}}
    IN IF Cardinality(regions) >= 1
       THEN Ok(CHOOSE r \in regions : TRUE)
       ELSE Err("Invalid region count", regions)

get_region(recs) ==
    LET regions == {recs[k].aws_region.val :
                       k \in {j \in 1..Len(recs) : recs[j].aws_region.some}}
    IN IF Cardinality(regions) = 1
       THEN Ok(CHOOSE r \in regions : TRUE)
       ELSE Err("Invalid region count", regions)

get_function_names_from_head_object_output_default(head_object_output) ==
    IF head_object_output.ok
    THEN LET object_md == head_object_output.val.metadata
         IN IF object_md.some /\ FUNCTION_NAME_MD_KEY \in DOMAIN object_md.val
            THEN Some(object_md.val[FUNCTION_NAME_MD_KEY])
            ELSE None
    ELSE Some(<<>>)

get_function_names_from_head_object_output(head_object_output) ==
    IF head_object_output.ok
    THEN LET object_md == head_object_output.val.metadata
         IN IF object_md.some /\ FUNCTION_NAME_MD_KEY \in DOMAIN object_md.val
            THEN Some(object_md.val[FUNCTION_NAME_MD_KEY])
            ELSE None
    ELSE None

get_function_names_key_first(function_names_from_md, key) ==
    LET function_name == StripSuffix(key, ZIP)
    IN IF function_name.some
       THEN Ok(function_name.val)
       ELSE IF function_names_from_md.some
            THEN Ok(function_names_from_md.val)
            ELSE Err("'.zip' not found in object key", key)

get_function_names(function_names_from_md, key) ==
    IF function_names_from_md.some
    THEN Ok(function_names_from_md.val)
    ELSE LET function_name == StripSuffix(key, ZIP)
         IN IF function_name.some
            THEN Ok(function_name.val)
            ELSE Err("'.zip' not found in object key", key)

process_function_names_untrimmed(function_names) ==
    LET processed_names == FilterNonEmpty(Split(function_names, ","))
    IN IF processed_names = <<>>
       THEN Err("No valid function names found", function_names)
       ELSE Ok(processed_names)

process_function_names(function_names) ==
    LET processed_names == FilterNonEmpty(MapTrim(Split(function_names, ",")))
    IN IF processed_names = <<>>
       THEN Err("No valid function names found", function_names)
       ELSE Ok(processed_names)

update_code(response) ==
    IF response.ok THEN Ok(Unit) ELSE response

(* tokio::spawn's JoinHandle resolves to Result<T, JoinError>, T being the  *)
(* value update_code returned; update_code neither panics nor is aborted.  *)
JoinHandleOutput(future) ==
    IF future.state = "done" THEN Some(Ok(future.output)) ELSE None

try_join_all_flat(futures) ==
    LET failed == {j \in 1..Len(futures) :
                      /\ JoinHandleOutput(futures[j]).some
                      /\ ~JoinHandleOutput(futures[j]).val.val.ok}
    IN IF failed # {}
       THEN Some(Err("UpdateFunctionCode", CHOOSE j \in failed : TRUE))
       ELSE IF \A j \in 1..Len(futures) : JoinHandleOutput(futures[j]).some
            THEN Some(Ok([j \in 1..Len(futures) |-> Unit]))
            ELSE None

(* futures::future::try_join_all: the first handle resolving to Err ends   *)
(* the join with that error, otherwise it resolves once all handles have.  *)
try_join_all(futures) ==
    LET failed == {j \in 1..Len(futures) :
                      /\ JoinHandleOutput(futures[j]).some
                      /\ ~JoinHandleOutput(futures[j]).val.ok}
    IN IF failed # {}
       THEN Some(Err("JoinError", CHOOSE j \in failed : TRUE))
       ELSE IF \A j \in 1..Len(futures) : JoinHandleOutput(futures[j]).some
            THEN Some(Ok([j \in 1..Len(futures) |->
                             JoinHandleOutput(futures[j]).val.val]))
            ELSE None

(* ------------------------------------------------------------ the inputs *)
Record(r, b, k) == [aws_region |-> r, bucket |-> b, key |-> k]
S3EventRecord ==
    { Record(Some("us-east-1"), Some("foo"), Some(<<"a">> \o ZIP)),
      Record(Some("us-east-1"), Some("baz"), Some(<<"a", ",", "b">> \o ZIP)),
      Record(Some("us-east-1"), Some("foo"), Some(<<"b">>)),
      Record(Some("us-east-2"), Some("foo"), Some(<<"a">> \o ZIP)),
      Record(None, Some("baz"), Some(<<"a">> \o ZIP)),
      Record(Some(""), Some("foo"), Some(<<"a">> \o ZIP)),
      Record(Some("us-east-1"), None, Some(<<"a">> \o ZIP)),
      Record(Some("us-east-1"), Some("baz"), None) }
S3Event == UNION {[1..n -> S3EventRecord] : n \in 0..MaxRecords}

MdValues == {<<" ", "a", ",", ",", "a">>, <<",", " ">>}
Metadata == {None}
              \cup {Some(FUNCTION_NAME_MD_KEY :> v) : v \in MdValues}
HeadObjectOutput == [metadata : Metadata]
HeadObjectResult == {Err("HeadObject", "SdkError")}
                      \cup {Ok(o) : o \in HeadObjectOutput}
UpdateFunctionCodeResult == {Ok(Unit), Err("UpdateFunctionCode", "SdkError")}

(* -------------------------------------------------------------- the state *)
VARIABLES
    records,              \* event.records
    pc,                   \* where update() stands
    region,               \* Option: region the clients are built for
    clients,              \* s3_client and lambda_client exist
    i,                    \* index of the record the loop is at
    update_tasks,         \* Vec<(function_name, bucket, key)>
    update_code_futures,  \* the spawned tasks, in spawn order
    headCalls,            \* head_object requests sent, in order
    headAnswers,          \* the answers to them, in order
    updateCalls,          \* bag of update_function_code requests sent
    result,               \* Option: what update() returned
    shadow,               \* the same run with every metadata failure
                          \* exchanged for absent metadata and vice versa
    fn                    \* a single function applied to a drawn input

pipeline == <<records, pc, region, clients, i, update_tasks,
              update_code_futures, headCalls, headAnswers, updateCalls,
              result, shadow>>
vars == <<pipeline, fn>>

Init ==
    /\ records \in S3Event
    /\ pc = "Start"
    /\ region = None
    /\ clients = FALSE
    /\ i = 1
    /\ update_tasks = <<>>
    /\ update_code_futures = <<>>
    /\ headCalls = <<>>
    /\ headAnswers = <<>>
    /\ updateCalls = EmptyBag
    /\ result = None
    /\ shadow = [tasks |-> <<>>, result |-> None]
    /\ fn = [op |-> "none"]

Return_retry(r) ==
    /\ result' = Some(r)
    /\ pc' = IF r.ok THEN "Done" ELSE "Start"

Return(r) ==
    /\ result' = Some(r)
    /\ pc' = "Done"

(* lib.rs 185-186: get_region(&event.records)? *)
ValidateRegion ==
    /\ pc = "Start"
    /\ LET r == get_region(records)
       IN IF r.ok
          THEN /\ region' = Some(r.val)
               /\ pc' = "RegionValidated"
               /\ UNCHANGED result
          ELSE /\ Return(r)
               /\ UNCHANGED region
    /\ UNCHANGED <<fn, records, clients, i, update_tasks, update_code_futures,
                   headCalls, headAnswers, updateCalls, shadow>>

(* lib.rs 187-193: load the configuration, build both clients *)
MakeClients ==
    /\ pc = "RegionValidated"
    /\ clients' = TRUE
    /\ pc' = "ClientsReady"
    /\ UNCHANGED <<fn, records, region, i, update_tasks, update_code_futures,
                   headCalls, headAnswers, updateCalls, result, shadow>>

RecordBegin_skipping ==
    /\ pc = "ClientsReady"
    /\ i <= Len(records)
    /\ LET record == records[i]
       IN IF ~record.bucket.some \/ ~record.key.some
          THEN /\ i' = i + 1
               /\ UNCHANGED <<pc, headCalls>>
          ELSE /\ headCalls' = Append(headCalls,
                       [bucket |-> record.bucket.val, key |-> record.key.val])
               /\ pc' = "HeadObject"
               /\ UNCHANGED i
    /\ UNCHANGED <<fn, records, region, clients, result, update_tasks,
                   update_code_futures, headAnswers, updateCalls, shadow>>

(* lib.rs 195-212: next record; bucket and key must be present, then the   *)
(* head_object request is sent                                             *)
RecordBegin ==
    /\ pc = "ClientsReady"
    /\ i <= Len(records)
    /\ LET record == records[i]
       IN IF ~record.bucket.some
          THEN /\ Return(Err("Bucket not found", record))
               /\ UNCHANGED headCalls
          ELSE IF ~record.key.some
          THEN /\ Return(Err("Key not found", record))
               /\ UNCHANGED headCalls
          ELSE /\ headCalls' = Append(headCalls,
                       [bucket |-> record.bucket.val, key |-> record.key.val])
               /\ pc' = "HeadObject"
               /\ UNCHANGED result
    /\ UNCHANGED <<fn, records, region, clients, i, update_tasks,
                   update_code_futures, headAnswers, updateCalls, shadow>>

ExpandTasks_distinct(processed_names, bucket, key) ==
    LET firsts == SelectSeq([n \in 1..Len(processed_names) |-> n],
                     LAMBDA n : \A m \in 1..(n - 1) :
                                   processed_names[m] # processed_names[n])
    IN [n \in 1..Len(firsts) |->
           [function_name |-> processed_names[firsts[n]],
            bucket |-> bucket, key |-> key]]

ExpandTasks_twice(processed_names, bucket, key) ==
    LET once == [n \in 1..Len(processed_names) |->
                    [function_name |-> processed_names[n],
                     bucket |-> bucket, key |-> key]]
    IN once \o once

(* lib.rs 216-218: one task per processed name, with the record's bucket   *)
(* and key                                                                 *)
ExpandTasks(processed_names, bucket, key) ==
    [n \in 1..Len(processed_names) |->
        [function_name |-> processed_names[n], bucket |-> bucket, key |-> key]]

(* lib.rs 57, 213-218: what the loop body does with the head_object answer *)
ResolveRecord_falling_back(head_object_output, bucket, key) ==
    LET from_md == get_function_names_from_head_object_output(head_object_output)
        function_names == get_function_names(from_md, key)
        from_key == get_function_names(None, key)
    IN IF ~function_names.ok THEN function_names
       ELSE LET processed_names == process_function_names(function_names.val)
            IN IF processed_names.ok
               THEN Ok(ExpandTasks(processed_names.val, bucket, key))
               ELSE IF from_key.ok /\ process_function_names(from_key.val).ok
                    THEN Ok(ExpandTasks(
                             process_function_names(from_key.val).val,
                             bucket, key))
                    ELSE processed_names

ResolveRecord(head_object_output, bucket, key) ==
    LET from_md == get_function_names_from_head_object_output(head_object_output)
        function_names == get_function_names(from_md, key)
    IN IF ~function_names.ok THEN function_names
       ELSE LET processed_names == process_function_names(function_names.val)
            IN IF ~processed_names.ok THEN processed_names
               ELSE Ok(ExpandTasks(processed_names.val, bucket, key))

(* ResolveRecord for every answer, bucket and key of the inputs, computed  *)
(* once.                                                                   *)
RecordBuckets == {rec.bucket.val : rec \in {x \in S3EventRecord : x.bucket.some}}
RecordKeys == {rec.key.val : rec \in {x \in S3EventRecord : x.key.some}}
Resolved ==
    [h \in HeadObjectResult, bucket \in RecordBuckets, key \in RecordKeys |->
        ResolveRecord(h, bucket, key)]

(* The answer h carries the function.names field.                          *)
FieldPresent(h) ==
    /\ h.ok
    /\ h.val.metadata.some
    /\ FUNCTION_NAME_MD_KEY \in DOMAIN h.val.metadata.val

(* The answers that differ from h only in how the field is missing: a      *)
(* failed request for a successful one without the field and vice versa.   *)
Exchanged(h) ==
    IF FieldPresent(h)
    THEN {h}
    ELSE {g \in HeadObjectResult : ~FieldPresent(g) /\ g.ok # h.ok}

ShadowStep(g, bucket, key) ==
    IF shadow.result.some THEN shadow
    ELSE LET r == Resolved[g, bucket, key]
         IN IF r.ok THEN [shadow EXCEPT !.tasks = @ \o r.val]
                    ELSE [shadow EXCEPT !.result = Some(r)]

(* lib.rs 56-57, 212-219: head_object answers; names are resolved and      *)
(* processed, the record's tasks are pushed                                *)
HeadObjectReturn ==
    /\ pc = "HeadObject"
    /\ \E h \in HeadObjectResult :
          LET bucket == records[i].bucket.val
              key == records[i].key.val
              r == Resolved[h, bucket, key]
          IN /\ r.ok => Len(update_tasks) + Len(r.val) <= MaxTasks
             /\ IF r.ok
                THEN /\ update_tasks' = update_tasks \o r.val
                     /\ i' = i + 1
                     /\ pc' = "ClientsReady"
                     /\ UNCHANGED result
                ELSE /\ Return(r)
                     /\ UNCHANGED <<update_tasks, i>>
             /\ headAnswers' = Append(headAnswers, h)
             /\ \E g \in Exchanged(h) : shadow' = ShadowStep(g, bucket, key)
    /\ UNCHANGED <<fn, records, region, clients, update_code_futures,
                   headCalls, updateCalls>>

RecordsEnd_early ==
    /\ pc = "ClientsReady"
    /\ i >= Len(records)
    /\ pc' = "TasksExpanded"
    /\ UNCHANGED <<fn, records, region, clients, i, update_tasks,
                   update_code_futures, headCalls, headAnswers, updateCalls,
                   result, shadow>>

(* lib.rs 219-221: the loop over the records has ended *)
RecordsEnd ==
    /\ pc = "ClientsReady"
    /\ i > Len(records)
    /\ pc' = "TasksExpanded"
    /\ UNCHANGED <<fn, records, region, clients, i, update_tasks,
                   update_code_futures, headCalls, headAnswers, updateCalls,
                   result, shadow>>

SpawnTask_in_loop ==
    /\ pc \in {"ClientsReady", "HeadObject", "TasksExpanded"}
    /\ Len(update_code_futures) < Len(update_tasks)
    /\ update_code_futures' = Append(update_code_futures, [state |-> "spawned"])
    /\ UNCHANGED <<fn, records, pc, region, clients, i, update_tasks,
                   headCalls, headAnswers, updateCalls, result, shadow>>

SpawnTask_sequential ==
    /\ pc = "TasksExpanded"
    /\ Len(update_code_futures) < Len(update_tasks)
    /\ \A j \in 1..Len(update_code_futures) :
          update_code_futures[j].state = "done"
    /\ update_code_futures' = Append(update_code_futures, [state |-> "spawned"])
    /\ UNCHANGED <<fn, records, pc, region, clients, i, update_tasks,
                   headCalls, headAnswers, updateCalls, result, shadow>>

(* lib.rs 222-229: tokio::spawn(update_code(..)) for the next task *)
SpawnTask ==
    /\ pc = "TasksExpanded"
    /\ Len(update_code_futures) < Len(update_tasks)
    /\ update_code_futures' = Append(update_code_futures, [state |-> "spawned"])
    /\ UNCHANGED <<fn, records, pc, region, clients, i, update_tasks,
                   headCalls, headAnswers, updateCalls, result, shadow>>

(* lib.rs 231-232: all tasks are spawned, try_join_all is awaited *)
SpawnEnd ==
    /\ pc = "TasksExpanded"
    /\ Len(update_code_futures) = Len(update_tasks)
    /\ pc' = "Dispatched"
    /\ UNCHANGED <<fn, records, region, clients, i, update_tasks,
                   update_code_futures, headCalls, headAnswers, updateCalls,
                   result, shadow>>

(* lib.rs 152-160: a spawned task is polled and sends its request *)
TaskCall(j) ==
    /\ update_code_futures[j].state = "spawned"
    /\ update_code_futures' =
           [update_code_futures EXCEPT ![j] = [state |-> "inflight"]]
    /\ updateCalls' = updateCalls (+) SetToBag({update_tasks[j]})
    /\ UNCHANGED <<fn, records, pc, region, clients, i, update_tasks,
                   headCalls, headAnswers, result, shadow>>

(* lib.rs 160-164: the request of a task answers, the task returns *)
TaskReturn(j) ==
    /\ update_code_futures[j].state = "inflight"
    /\ \E response \in UpdateFunctionCodeResult :
          update_code_futures' = [update_code_futures EXCEPT
              ![j] = [state |-> "done", output |-> update_code(response)]]
    /\ UNCHANGED <<fn, records, pc, region, clients, i, update_tasks,
                   headCalls, headAnswers, updateCalls, result, shadow>>

(* lib.rs 232-234: try_join_all(update_code_futures).await?; Ok(()) *)
Join ==
    /\ pc = "Dispatched"
    /\ LET joined == try_join_all(update_code_futures)
       IN /\ joined.some
          /\ Return(IF joined.val.ok THEN Ok(Unit) ELSE joined.val)
    /\ UNCHANGED <<fn, records, region, clients, i, update_tasks,
                   update_code_futures, headCalls, headAnswers, updateCalls,
                   shadow>>

Next ==
    \/ ValidateRegion
    \/ MakeClients
    \/ RecordBegin
    \/ HeadObjectReturn
    \/ RecordsEnd
    \/ SpawnTask
    \/ SpawnEnd
    \/ \E j \in 1..Len(update_code_futures) : TaskCall(j)
    \/ \E j \in 1..Len(update_code_futures) : TaskReturn(j)
    \/ Join

Spec == Init /\ [][Next]_vars

(* update is polled until it returns, every request is answered and every  *)
(* spawned task is run by the runtime.                                     *)
SpecLive == Init /\ [][Next]_vars /\ WF_vars(Next)

(* ------------------------------------------- the functions on their own *)
Alphabet == {"a", "b", ",", " "}
Strings(n) == UNION {[1..m -> Alphabet] : m \in 0..n}
KeyStrings ==
    UNION {{p, p \o ZIP, p \o ZIP \o ZIP, p \o <<".", "z", "i">>,
            p \o <<"z", "i", "p">>, ZIP \o p} : p \in Strings(MaxLen - 2)}
MetadataFn ==
    {None, Some(<<>>)}
      \cup {Some("other" :> v) : v \in Strings(1)}
      \cup {Some(FUNCTION_NAME_MD_KEY :> v) : v \in Strings(MaxLen - 2)}
      \cup {Some((FUNCTION_NAME_MD_KEY :> v) @@ ("other" :> v)) : v \in Strings(1)}
HeadObjectResultFn ==
    {Err("HeadObject", "SdkError")} \cup {Ok([metadata |-> m]) : m \in MetadataFn}

Call(op, args) == [op |-> op, args |-> args, out |-> None]

InitFn ==
    /\ records = <<>>
    /\ pc = "Idle"
    /\ region = None
    /\ clients = FALSE
    /\ i = 1
    /\ update_tasks = <<>>
    /\ update_code_futures = <<>>
    /\ headCalls = <<>>
    /\ headAnswers = <<>>
    /\ updateCalls = EmptyBag
    /\ result = None
    /\ shadow = [tasks |-> <<>>, result |-> None]
    /\ fn \in {Call("get_region", <<e>>) : e \in S3Event}
          \cup {Call("get_function_names", <<h, k>>) :
                   h \in HeadObjectResultFn, k \in KeyStrings}
          \cup {Call("process_function_names", <<s>>) : s \in Strings(MaxLen)}

Apply(op, out) ==
    /\ fn.op = op
    /\ ~fn.out.some
    /\ fn' = [fn EXCEPT !.out = Some(out)]
    /\ UNCHANGED pipeline

ApplyGetRegion ==
    Apply("get_region", get_region(fn.args[1]))

(* lib.rs 212-213: get_function_names_from_md, then get_function_names *)
ApplyGetFunctionNames ==
    Apply("get_function_names",
          get_function_names(
              get_function_names_from_head_object_output(fn.args[1]),
              fn.args[2]))

ApplyProcessFunctionNames ==
    Apply("process_function_names", process_function_names(fn.args[1]))

NextFn ==
    \/ ApplyGetRegion
    \/ ApplyGetFunctionNames
    \/ ApplyProcessFunctionNames

SpecFn == InitFn /\ [][NextFn]_vars

(* ---------------------------------------------------------------- claims *)
Applied(op) == fn.op = op /\ fn.out.some
Failed(r, m) == ~r.ok /\ r.msg = m

(* C5: get_region returns r for every non-empty sequence of records that   *)
(* all carry the region r; for the empty sequence and for every sequence   *)
(* holding two records with differing regions it fails with "Invalid       *)
(* region count".                                                          *)
C5_GetRegion ==
    Applied("get_region") =>
        LET recs == fn.args[1]
            out == fn.out.val
        IN /\ \A r \in {"", "us-east-1", "us-east-2"} :
                 (recs # <<>> /\ \A k \in 1..Len(recs) :
                                    recs[k].aws_region = Some(r))
                     => (out.ok /\ out.val = r)
           /\ recs = <<>> => Failed(out, "Invalid region count")
           /\ (\E j, k \in 1..Len(recs) :
                  /\ recs[j].aws_region.some
                  /\ recs[k].aws_region.some
                  /\ recs[j].aws_region.val # recs[k].aws_region.val)
                 => Failed(out, "Invalid region count")

C5_Witness ==
    /\ Applied("get_region")
    /\ Len(fn.args[1]) = 2
    /\ fn.args[1][1] # fn.args[1][2]
    /\ fn.args[1][1].aws_region = Some("us-east-1")
    /\ fn.args[1][2].aws_region = Some("us-east-1")
    /\ fn.out.val = Ok("us-east-1")

(* The prefix p with key = p ++ ".zip", found by position.                 *)
EndsWithZip(key) ==
    /\ Len(key) >= 4
    /\ key[Len(key) - 3] = "."
    /\ key[Len(key) - 2] = "z"
    /\ key[Len(key) - 1] = "i"
    /\ key[Len(key)] = "p"
WithoutZip(key) == [k \in 1..(Len(key) - 4) |-> key[k]]

(* C7: when the metadata fetch succeeded and function.names is present,    *)
(* the resolved-names string is that field's raw value for every key;      *)
(* otherwise a key ending in .zip resolves to the key without that one     *)
(* trailing .zip; otherwise resolution fails with "'.zip' not found".      *)
C7_NameResolver ==
    Applied("get_function_names") =>
        LET h == fn.args[1]
            key == fn.args[2]
            out == fn.out.val
        IN IF FieldPresent(h)
           THEN out.ok /\ out.val = h.val.metadata.val[FUNCTION_NAME_MD_KEY]
           ELSE IF EndsWithZip(key)
                THEN out.ok /\ out.val = WithoutZip(key)
                ELSE Failed(out, "'.zip' not found in object key")

C7_Witness ==
    /\ Applied("get_function_names")
    /\ FieldPresent(fn.args[1])
    /\ EndsWithZip(fn.args[2])
    /\ fn.out.val.ok
    /\ fn.out.val.val # WithoutZip(fn.args[2])

(* The pieces between the commas, by position.                             *)
Cuts(s) == {0, Len(s) + 1} \cup {k \in 1..Len(s) : s[k] = ","}
Cut(s, m) == CHOOSE c \in Cuts(s) : Cardinality({d \in Cuts(s) : d < c}) = m
Piece(s, m) == SubSeq(s, Cut(s, m - 1) + 1, Cut(s, m) - 1)
Inner(p) ==
    LET solid == {k \in 1..Len(p) : p[k] # " "}
        first == CHOOSE k \in solid : \A j \in solid : k <= j
        last == CHOOSE k \in solid : \A j \in solid : k >= j
    IN IF solid = {} THEN <<>> ELSE SubSeq(p, first, last)
NonEmptyName(p) == p # <<>>
Names(s) ==
    SelectSeq([m \in 1..(Cardinality(Cuts(s)) - 1) |-> Inner(Piece(s, m))],
              NonEmptyName)

(* C8: on success process_function_names returns the comma-separated       *)
(* pieces, each trimmed of surrounding whitespace, the empty ones removed, *)
(* in their order, and never the empty list; it fails with "No valid       *)
(* function names found" exactly when every piece is empty after trimming. *)
C8_NameNormalizer ==
    Applied("process_function_names") =>
        LET s == fn.args[1]
            out == fn.out.val
        IN IF Names(s) = <<>>
           THEN Failed(out, "No valid function names found")
           ELSE out.ok /\ out.val = Names(s) /\ out.val # <<>>

C8_Witness ==
    /\ Applied("process_function_names")
    /\ fn.args[1] = <<" ", "a", ",", ",">>
    /\ fn.out.val = Ok(<< <<"a">> >>)

(* ------------------------------------------------- claims about update() *)
Returned == pc = "Done" /\ result.some
Dispatching == i > Len(records) /\ records # <<>>
TaskFailed(j) ==
    /\ update_code_futures[j].state = "done"
    /\ ~update_code_futures[j].output.ok
TaskSucceeded(j) ==
    /\ update_code_futures[j].state = "done"
    /\ update_code_futures[j].output.ok
InFlight(j) == update_code_futures[j].state = "inflight"
NoUpdateIssued == updateCalls = EmptyBag /\ update_code_futures = <<>>

(* What the answer to record k resolves to, from the answer and the key.   *)
Answered(k) == k <= Len(headAnswers)
ResolutionFails(k) ==
    ~FieldPresent(headAnswers[k]) /\ ~EndsWithZip(records[k].key.val)
ResolvedNames(k) ==
    IF FieldPresent(headAnswers[k])
    THEN headAnswers[k].val.metadata.val[FUNCTION_NAME_MD_KEY]
    ELSE WithoutZip(records[k].key.val)
ResolvableStrings ==
    MdValues \cup {WithoutZip(key) : key \in {x \in RecordKeys : EndsWithZip(x)}}
NamesIn == [s \in ResolvableStrings |-> Names(s)]
NormalizationFails(k) == ~ResolutionFails(k) /\ NamesIn[ResolvedNames(k)] = <<>>
NamesOf(k) ==
    IF ResolutionFails(k) THEN <<>> ELSE NamesIn[ResolvedNames(k)]

(* C1: when at least one task's updateFunctionCode call returned an error, *)
(* update returns a failure once the tasks have completed.                 *)
C1_TaskFailureFailsUpdate ==
    (Returned /\ \E j \in 1..Len(update_code_futures) : TaskFailed(j))
        => ~result.val.ok

(* C2: update returns its result only after every one of the N tasks was   *)
(* spawned, sent its updateFunctionCode request and finished, whichever of *)
(* them failed.                                                            *)
C2_WaitsForAllTasks ==
    (Returned /\ Dispatching) =>
        /\ Len(update_code_futures) = Len(update_tasks)
        /\ BagCardinality(updateCalls) = Len(update_tasks)
        /\ \A j \in 1..Len(update_code_futures) :
              update_code_futures[j].state = "done"

C2_Witness ==
    /\ Returned
    /\ Len(update_code_futures) = 3
    /\ TaskFailed(1)
    /\ TaskSucceeded(2)
    /\ TaskFailed(3)

(* C3: a record with a missing bucket or key, or whose names cannot be     *)
(* resolved or normalize to nothing, makes update fail, and no             *)
(* updateFunctionCode request is ever sent in that run, also not for       *)
(* earlier records that resolved.                                          *)
C3_PreDispatchAllOrNothing ==
    LET defective ==
            \/ \E k \in 1..Len(records) :
                  ~records[k].bucket.some \/ ~records[k].key.some
            \/ \E k \in 1..Len(headAnswers) :
                  ResolutionFails(k) \/ NormalizationFails(k)
    IN defective =>
          /\ NoUpdateIssued
          /\ result.some => ~result.val.ok
          /\ pc \notin {"TasksExpanded", "Dispatched"}
          /\ (\E k \in 1..Len(headAnswers) :
                 ResolutionFails(k) \/ NormalizationFails(k)) => Returned

C3_Witness ==
    /\ Returned
    /\ Len(records) = 2
    /\ Len(update_tasks) = 2
    /\ Len(headAnswers) = 2
    /\ ResolutionFails(2)
    /\ Failed(result.val, "'.zip' not found in object key")

(* C4: an event with zero or with several distinct regions makes update    *)
(* fail before the clients are built and before any headObject or          *)
(* updateFunctionCode request.                                             *)
DistinctRegions ==
    {r \in {"", "us-east-1", "us-east-2"} :
        \E k \in 1..Len(records) : records[k].aws_region = Some(r)}

NameStageFailure(r) ==
    /\ r.some
    /\ ~r.val.ok
    /\ r.val.msg \in {"'.zip' not found in object key",
                      "No valid function names found"}
SameFailure(a, b) ==
    /\ a.some /\ b.some
    /\ ~a.val.ok /\ ~b.val.ok
    /\ a.val.msg = b.val.msg
    /\ a.val.arg = b.val.arg

C6_FetchFailureIsAbsence ==
    /\ shadow.tasks = update_tasks
    /\ (NameStageFailure(result) \/ shadow.result.some)
          => SameFailure(result, shadow.result)
    /\ \A k \in 1..Len(headAnswers) :
          (/\ ~headAnswers[k].ok
           /\ EndsWithZip(records[k].key.val)
           /\ Names(WithoutZip(records[k].key.val)) # <<>>) => i > k

C6_Witness ==
    /\ Returned
    /\ result.val.ok
    /\ Len(headAnswers) = 2
    /\ ~headAnswers[1].ok
    /\ headAnswers[2].ok /\ ~FieldPresent(headAnswers[2])
    /\ Len(update_tasks) = 3

(* C9: when every record resolves, the updateFunctionCode requests sent    *)
(* are, as a multiset, the (name, bucket, key) triples of every record's   *)
(* normalized names with that record's bucket and key: never more while    *)
(* the tasks run, exactly those when update returns.                       *)
RECURSIVE Occurrences(_)
Occurrences(k) ==
    IF k = 0 THEN <<>>
    ELSE LET names == NamesOf(k)
         IN Occurrences(k - 1) \o
               [n \in 1..Len(names) |->
                   [function_name |-> names[n],
                    bucket |-> records[k].bucket.val,
                    key |-> records[k].key.val]]
CountIn(seq, t) == Cardinality({n \in 1..Len(seq) : seq[n] = t})
ExpectedCalls ==
    LET occ == Occurrences(Len(headAnswers))
    IN [t \in {occ[n] : n \in 1..Len(occ)} |-> CountIn(occ, t)]

C9_ExactlyOncePerOccurrence ==
    Dispatching =>
        /\ updateCalls \sqsubseteq ExpectedCalls
        /\ Returned => updateCalls = ExpectedCalls

C9_Witness ==
    /\ Returned
    /\ Dispatching
    /\ Len(records) = 2
    /\ records[1].bucket # records[2].bucket
    /\ BagCardinality(updateCalls) = 3
    /\ \E t \in DOMAIN updateCalls : updateCalls[t] = 2

(* C10 as stated: no two tasks in flight at the same time carry the same   *)
(* functionName.                                                           *)
C10_DistinctNamesInFlight ==
    \A j, k \in 1..Len(update_code_futures) :
        (j # k /\ InFlight(j) /\ InFlight(k))
            => update_tasks[j].function_name # update_tasks[k].function_name

(* C10 amended: the tasks in flight that carry one functionName are never  *)
(* more than the occurrences of that name in the normalized names of the   *)
(* event's records; names occurring once are never in flight twice.        *)
C10_InFlightPerOccurrence ==
    LET occ == Occurrences(Len(headAnswers))
    IN \A j \in 1..Len(update_code_futures) :
          LET name == update_tasks[j].function_name
          IN Cardinality({k \in 1..Len(update_code_futures) :
                 InFlight(k) /\ update_tasks[k].function_name = name})
               <= Cardinality({n \in 1..Len(occ) :
                      occ[n].function_name = name})

C10_Witness ==
    /\ Len(update_code_futures) = 3
    /\ InFlight(1) /\ InFlight(2) /\ InFlight(3)
    /\ update_tasks[1].function_name = update_tasks[2].function_name
    /\ update_tasks[1].function_name # update_tasks[3].function_name

(* C11: a record resolved from its key (the fetch failed or function.names *)
(* is absent) whose key ends in .zip gets exactly one update task, named   *)
(* by the key without .zip.                                                *)
C11_FallbackYieldsOneTask ==
    [][(/\ pc = "HeadObject"
        /\ Len(headAnswers') = i
        /\ ~FieldPresent(headAnswers'[i])
        /\ EndsWithZip(records[i].key.val))
          => update_tasks' = Append(update_tasks,
                 [function_name |-> WithoutZip(records[i].key.val),
                  bucket |-> records[i].bucket.val,
                  key |-> records[i].key.val])]_vars

(* C12: when update fails before dispatch, the error is that of record i,  *)
(* the first record that fails its bucket/key check, resolution or         *)
(* normalization; headObject was requested once for each record up to i,   *)
(* in order, and for no record after i.                                    *)
HeadCallOf(k) ==
    [bucket |-> records[k].bucket.val, key |-> records[k].key.val]
RecordError(k) ==
    IF ~records[k].bucket.some THEN Err("Bucket not found", records[k])
    ELSE IF ~records[k].key.some THEN Err("Key not found", records[k])
    ELSE IF ResolutionFails(k)
         THEN Err("'.zip' not found in object key", records[k].key.val)
         ELSE Err("No valid function names found", ResolvedNames(k))
Sound(k) ==
    /\ records[k].bucket.some
    /\ records[k].key.some
    /\ Answered(k)
    /\ ~ResolutionFails(k)
    /\ ~NormalizationFails(k)
PreDispatchFailure ==
    /\ Returned
    /\ ~result.val.ok
    /\ result.val.msg # "Invalid region count"

C12_FirstFailureInRecordOrder ==
    /\ Len(headCalls) <= Len(records)
    /\ Len(headCalls) <= i
    /\ \A k \in 1..Len(headCalls) : headCalls[k] = HeadCallOf(k)
    /\ \A k \in 1..(i - 1) : k <= Len(records) => Sound(k)
    /\ PreDispatchFailure =>
          /\ i <= Len(records)
          /\ ~Sound(i)
          /\ result.val.msg = RecordError(i).msg
          /\ result.val.arg = RecordError(i).arg

C12_Witness ==
    /\ PreDispatchFailure
    /\ Len(records) = 2
    /\ i = 1
    /\ Len(headCalls) = 1
    /\ NormalizationFails(1)
    /\ records[2].bucket.some /\ records[2].key.some

(* C13 as stated: every task's updateFunctionCode request has been sent    *)
(* when update starts to await the outcomes.                               *)
C13_CallsSentBeforeAwait ==
    pc = "Dispatched" =>
        \A j \in 1..Len(update_code_futures) :
            update_code_futures[j].state # "spawned"

(* C13 amended: every task is spawned before any outcome is awaited (its   *)
(* request is sent when the task is first polled); the next task can be    *)
(* spawned and a spawned task can send its request whatever the other      *)
(* tasks have done; the result does not depend on the completion order.    *)
C13_EagerLaunch ==
    /\ (pc = "Dispatched" \/ (Returned /\ Dispatching))
          => Len(update_code_futures) = Len(update_tasks)
    /\ (pc = "TasksExpanded" /\ Len(update_code_futures) < Len(update_tasks))
          => ENABLED SpawnTask
    /\ \A j \in 1..Len(update_code_futures) :
          update_code_futures[j].state = "spawned" => ENABLED TaskCall(j)
    /\ (Returned /\ Dispatching) => result.val.ok

C13_Witness ==
    /\ pc = "Dispatched"
    /\ Len(update_tasks) = 3
    /\ \A j \in 1..3 : j <= Len(update_code_futures) /\ InFlight(j)

(* C14: only non-empty region values count: records whose region is absent *)
(* or the empty string contribute nothing, an event carrying no other      *)
(* region fails with "Invalid region count", and every region carried in a *)
(* validated event is the one returned.                                    *)
NonEmptyRegions(recs) ==
    {r \in {"us-east-1", "us-east-2"} :
        \E k \in 1..Len(recs) : recs[k].aws_region = Some(r)}

C14_OnlyNonEmptyRegionsCount ==
    Applied("get_region") =>
        LET recs == fn.args[1]
            out == fn.out.val
        IN /\ NonEmptyRegions(recs) = {} => Failed(out, "Invalid region count")
           /\ Cardinality(NonEmptyRegions(recs)) = 1
                 => (out.ok /\ out.val \in NonEmptyRegions(recs))
           /\ Cardinality(NonEmptyRegions(recs)) > 1
                 => Failed(out, "Invalid region count")

(* C15: when every request is answered, update reaches Done with a result  *)
(* and keeps it; it moves through Start, RegionValidated, ClientsReady,    *)
(* RecordsResolved/TasksExpanded, Dispatched, Done forwards only, one      *)
(* stage at a time unless it fails to Done; in Done no request is sent.    *)
Stage(p) ==
    CASE p = "Start" -> 1
      [] p = "RegionValidated" -> 2
      [] p \in {"ClientsReady", "HeadObject"} -> 3
      [] p = "TasksExpanded" -> 4
      [] p = "Dispatched" -> 5
      [] p = "Done" -> 6

C15_TerminatesInOrder ==
    /\ <>(pc = "Done" /\ result.some)
    /\ [][/\ Stage(pc') >= Stage(pc)
          /\ Stage(pc') <= Stage(pc) + 1 \/ (pc' = "Done" /\ ~result'.val.ok)
          /\ result.some => result' = result
          /\ pc = "Done" => /\ pc' = "Done"
                            /\ headCalls' = headCalls
                            /\ updateCalls' = updateCalls]_vars

C15_Witness ==
    /\ pc = "Done"
    /\ result.some /\ result.val.ok
    /\ Len(headCalls) = 2
    /\ BagCardinality(updateCalls) = 3

(* C16: headObject requests are sent in record order, at most one is       *)
(* unanswered, the request for a record is sent only when every record     *)
(* before it is resolved and its tasks are pushed; a task is spawned or an *)
(* updateFunctionCode request sent only when every record is resolved.     *)
C16_LookupsSequentialBeforeDispatch ==
    /\ Len(headCalls) - Len(headAnswers) = (IF pc = "HeadObject" THEN 1 ELSE 0)
    /\ \A k \in 1..Len(headCalls) :
          /\ k <= Len(records)
          /\ headCalls[k] = HeadCallOf(k)
          /\ \A j \in 1..(k - 1) : Sound(j)
          /\ Len(update_tasks) >= Len(Occurrences(k - 1))
    /\ ~NoUpdateIssued =>
          /\ Len(headAnswers) = Len(records)
          /\ \A k \in 1..Len(records) : Sound(k)
          /\ update_tasks = Occurrences(Len(records))

C16_Witness ==
    /\ pc = "TasksExpanded"
    /\ Len(headAnswers) = 2
    /\ Len(update_tasks) = 3
    /\ Len(update_code_futures) = 1
    /\ InFlight(1)

(* C17: when headObject succeeds and function.names is present but         *)
(* normalizes to no name, update fails with "No valid function names       *)
(* found" for that value and sends no updateFunctionCode request, also     *)
(* when the key ends in .zip.                                              *)
C17_MetadataNeverOverridden ==
    \A k \in 1..Len(headAnswers) :
        (FieldPresent(headAnswers[k]) /\ NamesIn[ResolvedNames(k)] = <<>>) =>
            /\ Returned
            /\ i = k
            /\ Failed(result.val, "No valid function names found")
            /\ result.val.arg = headAnswers[k].val.metadata.val[FUNCTION_NAME_MD_KEY]
            /\ NoUpdateIssued

C17_Witness ==
    /\ Returned
    /\ Len(headAnswers) = 2
    /\ FieldPresent(headAnswers[2])
    /\ EndsWithZip(records[2].key.val)
    /\ Names(WithoutZip(records[2].key.val)) # <<>>
    /\ Failed(result.val, "No valid function names found")

====
